---- MODULE Spec2Model ----
(***************************************************************************)
(* Model of channel_join_request_bot.py: the sqlite cooldown table         *)
(* messaged_users, should_send_to_user and the coroutine                   *)
(* handle_join_request.                                                    *)
(*                                                                         *)
(* Every update is one invocation of handle_join_request, run by one of    *)
(* NumTasks handler tasks; a task that has finished takes the next update. *)
(* The coroutine runs on one asyncio event loop, so it can only be         *)
(* interleaved with other invocations at its await points (the two         *)
(* send_message calls and asyncio.sleep).  should_send_to_user is a plain  *)
(* synchronous function without an await, so lines 111-134 run as one      *)
(* step.  The model allows other invocations to run while one is awaiting, *)
(* which covers both sequential and concurrent update processing.          *)
(*                                                                         *)
(* Spec starts where run_polling starts to deliver updates.  SpecMain      *)
(* starts one step earlier, at main(), with the environment variable       *)
(* BOT_TOKEN as input.  SpecAudit is Spec with the send_message calls      *)
(* counted per user, SpecFair is Spec with every await completing.         *)
(***************************************************************************)
EXTENDS Integers, FiniteSets, Sequences, TLC

\* ---------------------------------------------------------------- bounds
NumTasks == 2           \* handler invocations that can be in flight together
NumUsers == 2           \* distinct requester ids
MaxRetryAfter == 1      \* largest retry_after Telegram advertises in the model
MaxWindows == 2         \* clock readings range over 0 .. MaxWindows cooldown windows

\* ---------------------------------------------------------------- config
MIN_SECONDS_BETWEEN_MESSAGES == 24 * 3600

Tasks == 1..NumTasks
Users == 1..NumUsers
NoUser == 0
NoRow == -1             \* cur.fetchone() returned None / no row in the table

\* Readings of int(datetime.utcnow().timestamp()) the model draws from: every
\* multiple of the window and the second before it, so that elapsed times of
\* 1, window - 1, window and more occur.  utcnow() is the wall clock, which is
\* not monotonic: a call may read any of them, also one earlier than the
\* reading of the call before.
Times ==
  { t \in UNION { {k * MIN_SECONDS_BETWEEN_MESSAGES - 1,
                   k * MIN_SECONDS_BETWEEN_MESSAGES} : k \in 0..MaxWindows } : t >= 0 }

\* sqlite3 can raise at connect/SELECT, at INSERT/UPDATE, or at commit.
DbFaults == {"none", "read", "write", "commit"}

\* What awaiting context.bot.send_message produces: a return, or an exception.
\* Forbidden and RetryAfter are subclasses of TelegramError, which is an Exception.
Signals == {"ok", "Forbidden", "RetryAfter", "TelegramError", "Exception"}

\* Values of the environment variable BOT_TOKEN: not set, set to the empty
\* string, set to the placeholder text, set to a token.
Unset == "<unset>"
EnvTokens == {Unset, "", "PUT_YOUR_TOKEN_HERE", "env-token"}

\* The string literal on the right of `or` in line 35 (abbreviated).
TOKEN_LITERAL == "literal-token"

Untracked == -1

VARIABLES
  store,        \* table messaged_users: user_id -> last_sent_ts, NoRow if absent
  row_count,    \* table messaged_users: per user_id, the number of rows with that key
  permits,      \* history: per user, the now_ts of every call that returned True, in order
  pc,           \* per task: "idle", "await1", "sleep", "await2", "done"
  user,         \* per task: jreq.from_user.id (NoUser: no join request)
  now_ts,       \* per task: now_ts of the should_send_to_user call that returned (-1: none)
  res,          \* per task: should_send_to_user gave "True", "False", "raise" ("none": not called)
  sends,        \* per task: number of send_message calls issued for this update
  first,        \* per task: what the first send_message produced ("none" until then)
  second,       \* per task: what the retry produced: "none", "ok", "failed"
  retry_after,  \* per task: e.retry_after of the caught RetryAfter (-1: none)
  wait,         \* per task: local variable wait (0: not set)
  slept,        \* per task: seconds of asyncio.sleep(wait) elapsed
  request,      \* per task: the join request: "none", "pending", "approved", "declined"
  raised,       \* per task: sqlite3 raised inside should_send_to_user
  exit,         \* per task: how the coroutine ended: "none", "return", "raise"
  main_pc,      \* main(): "start", "exit" (SystemExit, status 1), "running" (run_polling)
  env_token,    \* os.environ.get("BOT_TOKEN") when the module is loaded
  attempts      \* history: per user, send_message calls issued so far (Untracked: not counted)

vars == <<store, row_count, permits, pc, user, now_ts, res, sends, first, second,
          retry_after, wait, slept, request, raised, exit,
          main_pc, env_token, attempts>>

tableVars == <<store, row_count, permits>>
sleepVars == <<retry_after, wait, slept>>
callVars == <<user, now_ts, res, raised>>
sendVars == <<sends, first, second>>
mainVars == <<main_pc, env_token>>
handlerVars == <<pc, callVars, sendVars, sleepVars, request, exit>>

\* ------------------------------------------------- should_send_to_user
\* Whether sqlite3 raises during the call: connect or SELECT fail on every
\* path, INSERT/UPDATE or commit only on the paths that execute them.
sqlite_raises(last_ts, now, min_seconds, fault) ==
  \/ fault = "read"
  \/ /\ fault \in {"write", "commit"}
     /\ (last_ts = NoRow \/ now - last_ts >= min_seconds)

\* Mutants of should_send_to_user.
should_send_to_user_abs(last_ts, now, min_seconds, fault) ==
  IF sqlite_raises(last_ts, now, min_seconds, fault) THEN "raise"
  ELSE IF last_ts = NoRow THEN "True"
  ELSE IF now - last_ts >= min_seconds \/ last_ts - now >= min_seconds THEN "True"
  ELSE "False"

should_send_to_user_strict(last_ts, now, min_seconds, fault) ==
  IF sqlite_raises(last_ts, now, min_seconds, fault) THEN "raise"
  ELSE IF last_ts = NoRow THEN "True"
  ELSE IF now - last_ts > min_seconds THEN "True"
  ELSE "False"

should_send_to_user_new_denied(last_ts, now, min_seconds, fault) ==
  IF sqlite_raises(last_ts, now, min_seconds, fault) THEN "raise"
  ELSE IF last_ts = NoRow THEN "False"
  ELSE IF now - last_ts >= min_seconds THEN "True"
  ELSE "False"

should_send_to_user_short(last_ts, now, min_seconds, fault) ==
  IF sqlite_raises(last_ts, now, min_seconds, fault) THEN "raise"
  ELSE IF last_ts = NoRow THEN "True"
  ELSE IF now - last_ts >= min_seconds - 1 THEN "True"
  ELSE "False"

\* The value should_send_to_user produces when the SELECT returned last_ts
\* (NoRow for None) and the clock reads now: "True", "False", or "raise" when
\* sqlite3 raises on the path taken.
should_send_to_user(last_ts, now, min_seconds, fault) ==
  IF sqlite_raises(last_ts, now, min_seconds, fault) THEN "raise"
  ELSE IF last_ts = NoRow THEN "True"
  ELSE IF now - last_ts >= min_seconds THEN "True"
  ELSE "False"

\* Mutants of messaged_users.
messaged_users_update_lost(st, user_id, now, r) ==
  IF r = "True" /\ st[user_id] = NoRow THEN [st EXCEPT ![user_id] = now] ELSE st

messaged_users_update_all(st, user_id, now, r) ==
  IF r = "True"
  THEN [v \in Users |-> IF v = user_id \/ st[v] # NoRow THEN now ELSE st[v]]
  ELSE st

messaged_users_insert_lost(st, user_id, now, r) ==
  IF r = "True" /\ st[user_id] # NoRow THEN [st EXCEPT ![user_id] = now] ELSE st

messaged_users_touch(st, user_id, now, r) ==
  IF r \in {"True", "False"} THEN [st EXCEPT ![user_id] = now] ELSE st

\* The table after the call that produced r: the INSERT (line 90) and the
\* UPDATE (line 96) are committed on exactly the two paths that return True;
\* the False path closes the connection without a write, and a write whose
\* execute or commit raised is rolled back when the connection is dropped.
messaged_users(st, user_id, now, r) ==
  IF r = "True" THEN [st EXCEPT ![user_id] = now] ELSE st

rows_after_insert_always(n, last_ts, r) ==
  IF r = "True" THEN n + 1 ELSE n

\* The number of rows keyed by user_id after the call that produced r: the
\* INSERT of line 90 adds one, and runs only when the SELECT found none; the
\* UPDATE of line 96 adds none, and nothing in the program deletes.
rows_after(n, last_ts, r) ==
  IF r = "True" /\ last_ts = NoRow THEN n + 1 ELSE n

\* ------------------------------------------------- handle_join_request
AfterThrottle_ignore(r) ==
  IF r \in {"True", "False"} THEN "await1" ELSE "done"

\* Where the coroutine goes after the throttle check (lines 121-134): on True
\* it runs on to the first send_message, otherwise it ends.
AfterThrottle(r) ==
  IF r = "True" THEN "await1" ELSE "done"

ThrottleExit_swallow(r, next) ==
  IF next = "done" THEN "return" ELSE "none"

\* How the coroutine ends at the throttle check: the exception of
\* should_send_to_user is outside the try block and leaves the coroutine;
\* a False takes the return of line 123.
ThrottleExit(r, next) ==
  IF r = "raise" THEN "raise" ELSE IF next = "done" THEN "return" ELSE "none"

AfterFirstSend_retry_all(sig) ==
  IF sig \in {"RetryAfter", "TelegramError"} THEN "sleep" ELSE "done"

\* Where the coroutine goes when the first send_message completes (lines
\* 133-151): only the except RetryAfter clause goes on to sleep and retry.
AfterFirstSend(sig) ==
  IF sig = "RetryAfter" THEN "sleep" ELSE "done"

\* wait = int(e.retry_after) + 1; retry_after is a whole number of seconds.
SleepSeconds(ra) == ra + 1

SendExit_uncaught(sig, next) ==
  IF next # "done" THEN "none" ELSE IF sig = "ok" THEN "return" ELSE "raise"

\* How the coroutine ends when a send_message has completed with sig and it
\* goes to next (lines 133-151): every exception of either send is caught by
\* an except clause that only logs, so the coroutine runs to its end.
SendExit(sig, next) == IF next = "done" THEN "return" ELSE "none"

join_request_after_approve(req, sig) ==
  IF sig = "ok" THEN "approved" ELSE req

\* The join request after a send_message has completed: the calls to
\* approve_chat_join_request and decline_chat_join_request exist only as
\* comments (lines 153-157), so the request is left as it was.
join_request_after(req, sig) == req

AfterRetry_loop(sig) ==
  IF sig = "RetryAfter" THEN "sleep" ELSE "done"

\* Where the coroutine goes when the retry completes (lines 143-147):
\* except Exception catches every signal, nothing loops back.
AfterRetry(sig) == "done"

\* Line 35: os.environ.get("BOT_TOKEN") or <literal>.  os.environ.get gives
\* None for a variable that is not set; None and "" are falsy, so `or` then
\* yields the literal.
BOT_TOKEN(env) == IF env \in {Unset, ""} THEN TOKEN_LITERAL ELSE env

\* The guard of main(), line 162.
token_missing(token) == token = "PUT_YOUR_TOKEN_HERE" \/ token = ""

\* send_message calls counted per user, when they are counted at all.
counted(n) == IF n = Untracked THEN n ELSE n + 1

\* Handler tasks and table as they are when the module has been loaded.
InitHandlers ==
  /\ store = [u \in Users |-> NoRow]
  /\ row_count = [u \in Users |-> 0]
  /\ permits = [u \in Users |-> <<>>]
  /\ pc = [t \in Tasks |-> "idle"]
  /\ user = [t \in Tasks |-> NoUser]
  /\ now_ts = [t \in Tasks |-> -1]
  /\ res = [t \in Tasks |-> "none"]
  /\ sends = [t \in Tasks |-> 0]
  /\ first = [t \in Tasks |-> "none"]
  /\ second = [t \in Tasks |-> "none"]
  /\ retry_after = [t \in Tasks |-> -1]
  /\ wait = [t \in Tasks |-> 0]
  /\ slept = [t \in Tasks |-> 0]
  /\ request = [t \in Tasks |-> "none"]
  /\ raised = [t \in Tasks |-> FALSE]
  /\ exit = [t \in Tasks |-> "none"]

\* The state in which run_polling starts to deliver updates: main() has
\* passed its guard and init_db has created the table.
Init ==
  /\ InitHandlers
  /\ main_pc = "running"
  /\ env_token = "env-token"
  /\ attempts = [u \in Users |-> Untracked]

\* The state when the module has been loaded and main() is about to run.
InitMain ==
  /\ InitHandlers
  /\ main_pc = "start"
  /\ env_token \in EnvTokens
  /\ attempts = [u \in Users |-> Untracked]

\* As Init, with the send_message calls to every user counted.
InitAudit ==
  /\ InitHandlers
  /\ main_pc = "running"
  /\ env_token = "env-token"
  /\ attempts = [u \in Users |-> 0]

\* main(), lines 161-173, up to run_polling: SystemExit if the guard holds,
\* else init_db (CREATE TABLE IF NOT EXISTS, which keeps the rows there are)
\* and polling.
Main ==
  /\ main_pc = "start"
  /\ main_pc' = IF token_missing(BOT_TOKEN(env_token)) THEN "exit" ELSE "running"
  /\ UNCHANGED <<tableVars, handlerVars, env_token, attempts>>

\* run_polling hands an update to the first task that is free.
Free(t) ==
  /\ main_pc = "running"
  /\ pc[t] = "idle"
  /\ \A d \in Tasks : d < t => pc[d] # "idle"

\* Mutant of HandleNoJoinRequest: no early return, jreq.from_user raises.
HandleNoJoinRequest_crash(t) ==
  /\ Free(t)
  /\ pc' = [pc EXCEPT ![t] = "done"]
  /\ exit' = [exit EXCEPT ![t] = "raise"]
  /\ UNCHANGED <<tableVars, callVars, sends, first, second, sleepVars, request>>
  /\ UNCHANGED <<mainVars, attempts>>

\* An update whose chat_join_request is empty: lines 111-113.
HandleNoJoinRequest(t) ==
  /\ Free(t)
  /\ pc' = [pc EXCEPT ![t] = "done"]
  /\ exit' = [exit EXCEPT ![t] = "return"]
  /\ UNCHANGED <<tableVars, callVars, sends, first, second, sleepVars, request>>
  /\ UNCHANGED <<mainVars, attempts>>

\* A join request from user u, handled when utcnow() reads now: lines
\* 111-134, up to the first await.
HandleJoinRequest(t, u, now, fault) ==
  LET r == should_send_to_user(store[u], now, MIN_SECONDS_BETWEEN_MESSAGES, fault)
      next == AfterThrottle(r)
  IN /\ Free(t)
     /\ user' = [user EXCEPT ![t] = u]
     /\ now_ts' = [now_ts EXCEPT ![t] = IF r = "raise" THEN -1 ELSE now]
     /\ res' = [res EXCEPT ![t] = r]
     /\ raised' = [raised EXCEPT ![t] =
                     sqlite_raises(store[u], now, MIN_SECONDS_BETWEEN_MESSAGES, fault)]
     /\ store' = messaged_users(store, u, now, r)
     /\ row_count' = [row_count EXCEPT ![u] = rows_after(@, store[u], r)]
     /\ permits' = IF r = "True" THEN [permits EXCEPT ![u] = Append(@, now)] ELSE permits
     /\ pc' = [pc EXCEPT ![t] = next]
     /\ sends' = [sends EXCEPT ![t] = IF next = "await1" THEN 1 ELSE 0]
     /\ exit' = [exit EXCEPT ![t] = ThrottleExit(r, next)]
     /\ request' = [request EXCEPT ![t] = "pending"]
     /\ attempts' = IF next = "await1" THEN [attempts EXCEPT ![u] = counted(@)] ELSE attempts
     /\ UNCHANGED <<first, second, sleepVars, mainVars>>

\* Mutant of FirstSendDone: a failed delivery deletes the user's row again.
FirstSendDone_rollback(t, sig, ra) ==
  LET next == AfterFirstSend(sig)
  IN /\ pc[t] = "await1"
     /\ first' = [first EXCEPT ![t] = sig]
     /\ pc' = [pc EXCEPT ![t] = next]
     /\ retry_after' = [retry_after EXCEPT ![t] = IF next = "sleep" THEN ra ELSE -1]
     /\ wait' = [wait EXCEPT ![t] = IF next = "sleep" THEN SleepSeconds(ra) ELSE 0]
     /\ exit' = [exit EXCEPT ![t] = SendExit(sig, next)]
     /\ request' = [request EXCEPT ![t] = join_request_after(@, sig)]
     /\ store' = IF sig \in {"Forbidden", "TelegramError", "Exception"}
                 THEN [store EXCEPT ![user[t]] = NoRow] ELSE store
     /\ row_count' = IF sig \in {"Forbidden", "TelegramError", "Exception"}
                     THEN [row_count EXCEPT ![user[t]] = 0] ELSE row_count
     /\ UNCHANGED <<permits, callVars, sends, second, slept, mainVars, attempts>>

\* The first send_message completes with sig: lines 134-151.  Nothing on these
\* lines touches the table.
FirstSendDone(t, sig, ra) ==
  LET next == AfterFirstSend(sig)
  IN /\ pc[t] = "await1"
     /\ first' = [first EXCEPT ![t] = sig]
     /\ pc' = [pc EXCEPT ![t] = next]
     /\ retry_after' = [retry_after EXCEPT ![t] = IF next = "sleep" THEN ra ELSE -1]
     /\ wait' = [wait EXCEPT ![t] = IF next = "sleep" THEN SleepSeconds(ra) ELSE 0]
     /\ exit' = [exit EXCEPT ![t] = SendExit(sig, next)]
     /\ request' = [request EXCEPT ![t] = join_request_after(@, sig)]
     /\ UNCHANGED <<tableVars, callVars, sends, second, slept, mainVars, attempts>>

\* One second of asyncio.sleep(wait) passes and more remain: line 142.
Sleep(t) ==
  /\ pc[t] = "sleep"
  /\ slept[t] + 1 < wait[t]
  /\ slept' = [slept EXCEPT ![t] = slept[t] + 1]
  /\ UNCHANGED <<tableVars, pc, callVars, sends, first, second,
                 retry_after, wait, request, exit, mainVars, attempts>>

\* asyncio.sleep(wait) returns and the retry is issued: lines 142-144.
RetrySend(t) ==
  /\ pc[t] = "sleep"
  /\ slept[t] + 1 >= wait[t]
  /\ slept' = [slept EXCEPT ![t] = wait[t]]
  /\ sends' = [sends EXCEPT ![t] = sends[t] + 1]
  /\ pc' = [pc EXCEPT ![t] = "await2"]
  /\ attempts' = [attempts EXCEPT ![user[t]] = counted(@)]
  /\ UNCHANGED <<tableVars, callVars, first, second, retry_after, wait, request, exit>>
  /\ UNCHANGED mainVars

\* The retry completes with sig: lines 144-147.  The locals e and wait are
\* dead once the coroutine has ended.
RetryDone(t, sig) ==
  LET next == AfterRetry(sig)
  IN /\ pc[t] = "await2"
     /\ second' = [second EXCEPT ![t] = IF sig = "ok" THEN "ok" ELSE "failed"]
     /\ pc' = [pc EXCEPT ![t] = next]
     /\ exit' = [exit EXCEPT ![t] = SendExit(sig, next)]
     /\ retry_after' = [retry_after EXCEPT ![t] = IF next = "done" THEN -1 ELSE @]
     /\ wait' = [wait EXCEPT ![t] = IF next = "done" THEN 0 ELSE @]
     /\ slept' = [slept EXCEPT ![t] = 0]
     /\ request' = [request EXCEPT ![t] = join_request_after(@, sig)]
     /\ UNCHANGED <<tableVars, callVars, sends, first, mainVars, attempts>>

\* The finished coroutine is discarded; the task can take another update.
Return(t) ==
  /\ pc[t] = "done"
  /\ pc' = [pc EXCEPT ![t] = "idle"]
  /\ user' = [user EXCEPT ![t] = NoUser]
  /\ now_ts' = [now_ts EXCEPT ![t] = -1]
  /\ res' = [res EXCEPT ![t] = "none"]
  /\ raised' = [raised EXCEPT ![t] = FALSE]
  /\ request' = [request EXCEPT ![t] = "none"]
  /\ sends' = [sends EXCEPT ![t] = 0]
  /\ first' = [first EXCEPT ![t] = "none"]
  /\ second' = [second EXCEPT ![t] = "none"]
  /\ exit' = [exit EXCEPT ![t] = "none"]
  /\ UNCHANGED <<tableVars, sleepVars, mainVars, attempts>>

Next ==
  \/ \E t \in Tasks : HandleNoJoinRequest(t)
  \/ \E t \in Tasks, u \in Users, now \in Times, fault \in DbFaults :
       HandleJoinRequest(t, u, now, fault)
  \/ \E t \in Tasks, sig \in Signals, ra \in 0..MaxRetryAfter : FirstSendDone(t, sig, ra)
  \/ \E t \in Tasks : Sleep(t)
  \/ \E t \in Tasks : RetrySend(t)
  \/ \E t \in Tasks, sig \in Signals : RetryDone(t, sig)
  \/ \E t \in Tasks : Return(t)

Spec == Init /\ [][Next]_vars

\* The program from the start of main().
NextMain ==
  \/ Main
  \/ Next

SpecMain == InitMain /\ [][NextMain]_vars

\* The handlers, given that every awaited send_message returns or raises and
\* that asyncio.sleep(wait) returns after wait seconds: the event loop
\* resumes a coroutine whose awaitable has completed.
Fairness ==
  \A t \in Tasks :
    /\ WF_vars(\E sig \in Signals, ra \in 0..MaxRetryAfter : FirstSendDone(t, sig, ra))
    /\ WF_vars(Sleep(t))
    /\ WF_vars(RetrySend(t))
    /\ WF_vars(\E sig \in Signals : RetryDone(t, sig))

SpecFair == Init /\ [][Next]_vars /\ Fairness

\* The handlers with every send_message call counted per user.
SpecAudit == InitAudit /\ [][Next]_vars

TypeOK ==
  /\ store \in [Users -> Times \cup {NoRow}]
  /\ row_count \in [Users -> 0..1]
  /\ \A u \in Users : permits[u] \in Seq(Times)
  /\ pc \in [Tasks -> {"idle", "await1", "sleep", "await2", "done"}]
  /\ now_ts \in [Tasks -> Times \cup {-1}]
  /\ sends \in [Tasks -> 0..2]
  /\ request \in [Tasks -> {"none", "pending", "approved", "declined"}]
  /\ main_pc \in {"start", "exit", "running"}
  /\ env_token \in EnvTokens
  /\ attempts \in [Users -> Nat \cup {Untracked}]

\* ------------------------------------------------------------ properties
Window == MIN_SECONDS_BETWEEN_MESSAGES

Abs(x) == IF x < 0 THEN -x ELSE x

\* Task t calls should_send_to_user in this step and the call returns; the
\* clock reading of the call is now_ts'[t].
Returned(t) == pc[t] = "idle" /\ res'[t] \in {"True", "False"}

\* The delivery of task t's message has failed.
DeliveryFailed(t) ==
  /\ res[t] = "True"
  /\ (first[t] \in {"Forbidden", "TelegramError", "Exception"} \/ second[t] = "failed")

\* C1: a call for a user whose record holds t0, made when the clock reads t1,
\* returns False and leaves the record at t0 when t1 - t0 < window, and returns
\* True and sets the record to t1 when t1 - t0 >= window.
C1_DecisionOnRecord ==
  [][\A t \in Tasks :
       (Returned(t) /\ store[user'[t]] # NoRow) =>
         LET u == user'[t]
             t0 == store[u]
             t1 == now_ts'[t]
         IN /\ (t1 - t0 < Window) => (res'[t] = "False" /\ store'[u] = t0)
            /\ (t1 - t0 >= Window) => (res'[t] = "True" /\ store'[u] = t1)]_vars

\* A permit exactly at the boundary t1 - t0 = window, next to a denial one
\* second short of it.
C1_Witness ==
  \E t1, t2 \in Tasks :
    /\ res[t1] = "True" /\ Len(permits[user[t1]]) = 2
    /\ now_ts[t1] - permits[user[t1]][1] = Window
    /\ store[user[t1]] = now_ts[t1]
    /\ res[t2] = "False" /\ user[t2] # user[t1]
    /\ now_ts[t2] - store[user[t2]] = Window - 1

\* C2: a call for a user without a record returns True and leaves a record
\* holding the clock reading of the call.
C2_FirstCallPermits ==
  [][\A t \in Tasks :
       (Returned(t) /\ store[user'[t]] = NoRow) =>
         (res'[t] = "True" /\ store'[user'[t]] = now_ts'[t])]_vars

C2_Witness ==
  \E t \in Tasks :
    /\ res[t] = "True" /\ now_ts[t] > 0
    /\ permits[user[t]] = <<now_ts[t]>>
    /\ store[user[t]] = now_ts[t]

\* Among the invocations in flight together for one user, no two whose calls
\* lie within one window of each other are both permitted, and once one of
\* them has returned from the call the user's first permit was granted once.
OnePermitAmongConcurrent ==
  \A u \in Users :
    /\ \A t1, t2 \in Tasks :
         (/\ t1 # t2 /\ user[t1] = u /\ user[t2] = u
          /\ res[t1] = "True" /\ res[t2] = "True")
         => Abs(now_ts[t1] - now_ts[t2]) >= Window
    /\ (\E t \in Tasks : user[t] = u /\ res[t] \in {"True", "False"})
         => /\ Len(permits[u]) >= 1
            /\ Cardinality({i \in DOMAIN permits[u] : permits[u][i] = permits[u][1]}) = 1

\* C3: concurrent invocations for one user are never both permitted within
\* one window, N simultaneous ones for a never-seen user get one permit, and
\* a call made within a window of the permit of an invocation still in
\* flight for the same user is denied.
C3_OnePermitPerWindow ==
  /\ []OnePermitAmongConcurrent
  /\ [][\A t, t2 \in Tasks :
          (/\ t # t2 /\ Returned(t) /\ user[t2] = user'[t]
           /\ res[t2] = "True" /\ Abs(now_ts'[t] - now_ts[t2]) < Window)
          => res'[t] = "False"]_vars

\* Every task has called for the same never-seen user at the same clock
\* reading: one was permitted, all the others denied.
C3_Witness ==
  \E u \in Users, now \in Times :
    /\ \A t \in Tasks : user[t] = u /\ now_ts[t] = now /\ res[t] \in {"True", "False"}
    /\ permits[u] = <<now>>
    /\ Cardinality({t \in Tasks : res[t] = "True"}) = 1
    /\ Cardinality({t \in Tasks : res[t] = "False"}) = NumTasks - 1

\* C4: any two permits granted to one user are at least the window apart.
C4_PermitsWindowApart ==
  \A u \in Users :
    \A i, j \in DOMAIN permits[u] :
      i < j => permits[u][j] - permits[u][i] >= Window

\* A user permitted twice, once at the boundary and once beyond it.
C4_Witness ==
  \E u, v \in Users :
    /\ Len(permits[u]) = 2 /\ permits[u][2] - permits[u][1] = Window
    /\ Len(permits[v]) = 2 /\ permits[v][2] - permits[v][1] > Window
    /\ store[u] = permits[u][2] /\ store[v] = permits[v][2]

\* C5: an invocation the store denied has issued no send_message and has
\* returned.
C5_DeniedSendsNothing ==
  \A t \in Tasks :
    res[t] = "False" =>
      /\ sends[t] = 0 /\ first[t] = "none" /\ second[t] = "none"
      /\ pc[t] = "done" /\ exit[t] = "return"

C5_Witness ==
  \E t \in Tasks : res[t] = "False" /\ pc[t] = "done" /\ sends[t] = 0

\* C6: a call that returns False leaves every record of the table as it was.
C6_DenialKeepsStore ==
  [][\A t \in Tasks : (Returned(t) /\ res'[t] = "False") => store' = store]_vars

\* Two denied calls for the same user at different times, the record still
\* at its permit time.
C6_Witness ==
  \E t1, t2 \in Tasks :
    /\ t1 # t2 /\ user[t1] = user[t2]
    /\ res[t1] = "False" /\ res[t2] = "False"
    /\ now_ts[t1] # now_ts[t2]
    /\ store[user[t1]] = permits[user[t1]][Len(permits[user[t1]])]

\* C7: after RetryAfter(N) from the first send the coroutine sleeps N+1
\* seconds, then issues one retry; no invocation issues more than two sends
\* and it has ended once the retry has completed, whatever the retry produced.
C7_SingleRetryAfterWait ==
  \A t \in Tasks :
    /\ sends[t] <= 2
    /\ (first[t] = "RetryAfter") => pc[t] \in {"sleep", "await2", "done"}
    /\ (pc[t] = "sleep") =>
         /\ first[t] = "RetryAfter" /\ sends[t] = 1
         /\ wait[t] = retry_after[t] + 1 /\ slept[t] < wait[t]
    /\ (pc[t] = "await2") =>
         /\ first[t] = "RetryAfter" /\ sends[t] = 2
         /\ slept[t] = retry_after[t] + 1
    /\ (first[t] = "RetryAfter" /\ pc[t] = "done") => (sends[t] = 2 /\ second[t] # "none")
    /\ (second[t] # "none") => (pc[t] = "done" /\ sends[t] = 2)
    /\ (sends[t] = 2) => first[t] = "RetryAfter"

\* A retry that failed, next to a retry issued after the full wait.
C7_Witness ==
  \E t1, t2 \in Tasks :
    /\ pc[t1] = "done" /\ first[t1] = "RetryAfter" /\ second[t1] = "failed" /\ sends[t1] = 2
    /\ pc[t2] = "await2" /\ retry_after[t2] = MaxRetryAfter /\ slept[t2] = MaxRetryAfter + 1

\* C8: when the first send ends in Forbidden or another error that is not
\* RetryAfter, the invocation has issued exactly one send and has returned.
C8_NoRetryOnOtherErrors ==
  \A t \in Tasks :
    first[t] \in {"Forbidden", "TelegramError", "Exception"} =>
      /\ sends[t] = 1 /\ second[t] = "none"
      /\ pc[t] = "done" /\ exit[t] = "return"

C8_Witness ==
  \E t1, t2 \in Tasks :
    /\ first[t1] = "Forbidden" /\ sends[t1] = 1 /\ pc[t1] = "done"
    /\ first[t2] \in {"TelegramError", "Exception"} /\ sends[t2] = 1 /\ pc[t2] = "done"

\* The record of a user whose delivery failed is still there, at the permit
\* time of that invocation or at the time of a later permit.
FailureKeepsRecord ==
  \A t \in Tasks :
    DeliveryFailed(t) =>
      /\ store[user[t]] # NoRow
      /\ (store[user[t]] = now_ts[t] \/ store[user[t]] - now_ts[t] >= Window)

\* C9: after a permitted invocation's delivery failed (Forbidden, another
\* transport error, or a failed retry) the user's record is not rolled back,
\* and a call for that user less than a window after the permit time is denied.
C9_FailureConsumesWindow ==
  /\ []FailureKeepsRecord
  /\ [][\A t, t2 \in Tasks :
          (/\ t # t2 /\ DeliveryFailed(t)
           /\ Returned(t2) /\ user'[t2] = user[t]
           /\ now_ts'[t2] - now_ts[t] < Window)
          => (res'[t2] = "False" /\ store' = store)]_vars

\* A delivery that failed, and a later request of the same user, within the
\* window, that was denied.
C9_Witness ==
  \E t1, t2 \in Tasks :
    /\ t1 # t2 /\ user[t1] = user[t2]
    /\ DeliveryFailed(t1) /\ store[user[t1]] = now_ts[t1]
    /\ res[t2] = "False" /\ now_ts[t2] > now_ts[t1]
    /\ now_ts[t2] - now_ts[t1] < Window

\* C10: when sqlite3 raises inside should_send_to_user, the call returns
\* neither True nor False, the coroutine ends with that exception, and no
\* send_message is issued.
C10_PersistenceErrorPropagates ==
  \A t \in Tasks :
    /\ raised[t] =>
         /\ res[t] = "raise"
         /\ sends[t] = 0 /\ first[t] = "none"
         /\ pc[t] = "done" /\ exit[t] = "raise"
    /\ (exit[t] = "raise") => raised[t]

\* One call raised for a user without a record, another for a user with one.
C10_Witness ==
  \E t1, t2 \in Tasks :
    /\ raised[t1] /\ exit[t1] = "raise" /\ store[user[t1]] = NoRow
    /\ raised[t2] /\ exit[t2] = "raise" /\ store[user[t2]] # NoRow

\* C11: the table never holds more than one row for a user_id, a user has a
\* row exactly when a last_sent_ts is stored for it, and no step removes a
\* row: a user that has a record has one in every later state.
C11_OneRecordNeverDeleted ==
  /\ [](\A u \in Users : row_count[u] <= 1 /\ (row_count[u] = 1 <=> store[u] # NoRow))
  /\ [][\A u \in Users :
          store[u] # NoRow => (store'[u] # NoRow /\ row_count'[u] >= row_count[u])]_vars

\* A user permitted twice still has a single row, and its task has returned.
C11_Witness ==
  \E u \in Users :
    /\ Len(permits[u]) >= 2 /\ row_count[u] = 1 /\ store[u] # NoRow
    /\ \A t \in Tasks : pc[t] = "idle"

\* C12: on every path of the handler the join request of the update stays
\* pending: it is neither approved nor declined.
C12_RequestStaysPending ==
  \A t \in Tasks :
    /\ (user[t] # NoUser) => request[t] = "pending"
    /\ request[t] \in {"none", "pending"}

\* One request whose message was sent at once, one whose message was sent
\* on the retry, both finished and both still pending.
C12_Witness ==
  \E t1, t2 \in Tasks :
    /\ pc[t1] = "done" /\ first[t1] = "ok" /\ request[t1] = "pending"
    /\ pc[t2] = "done" /\ second[t2] = "ok" /\ request[t2] = "pending"

\* C13: when BOT_TOKEN is not set in the environment, main() ends with
\* SystemExit: it never reaches init_db and run_polling, and no update is
\* handled.
C13_MissingTokenIsFatal ==
  (env_token = Unset) =>
    /\ main_pc \in {"start", "exit"}
    /\ \A t \in Tasks : pc[t] = "idle"

\* Task t calls should_send_to_user in this step, whatever the outcome.
Called(t) == pc[t] = "idle" /\ user'[t] # NoUser

\* C14: a call of should_send_to_user for user U leaves the record of every
\* other user as it was, whether it permits, denies or raises; a call that
\* permits changes the record of U, to the clock reading of the call.
C14_OnlyOwnRecordMutated ==
  [][\A t \in Tasks : Called(t) =>
        LET u == user'[t]
        IN /\ \A v \in Users \ {u} :
                store'[v] = store[v] /\ row_count'[v] = row_count[v]
           /\ res'[t] = "True" => (store'[u] = now_ts'[t] /\ store'[u] # store[u])
           /\ res'[t] # "True" => store'[u] = store[u]]_vars

\* A permitted call that updated the row of its user while another user
\* holds a row with a different timestamp.
C14_Witness ==
  \E t \in Tasks, v \in Users :
    /\ res[t] = "True" /\ user[t] # v /\ Len(permits[user[t]]) >= 2
    /\ store[user[t]] = now_ts[t]
    /\ store[v] # NoRow /\ store[v] # store[user[t]]

\* C15: a failure of the first send_message or of the retry, of whatever
\* kind, never escapes the handler: the coroutine returns normally, the only
\* exception a handler ends with is one raised by the store before any send,
\* and run_polling goes on delivering updates.
C15_NoTransportErrorEscapes ==
  /\ main_pc = "running"
  /\ \A t \in Tasks :
       /\ (first[t] \notin {"none", "ok", "RetryAfter"}) => (pc[t] = "done" /\ exit[t] = "return")
       /\ (second[t] = "failed") => (pc[t] = "done" /\ exit[t] = "return")
       /\ (exit[t] = "raise") => (first[t] = "none" /\ sends[t] = 0 /\ raised[t])
       /\ (pc[t] = "done") => exit[t] \in {"return", "raise"}

\* One handler whose first send failed with an unexpected exception and one
\* whose retry failed, both ended by a normal return.
C15_Witness ==
  \E t1, t2 \in Tasks :
    /\ first[t1] = "Exception" /\ exit[t1] = "return"
    /\ first[t2] = "RetryAfter" /\ second[t2] = "failed" /\ exit[t2] = "return"

\* Task t has been permitted and has not finished its sends.
InSendPhase(t) == pc[t] \in {"await1", "sleep", "await2"}

\* C16: the record of a permitted event is written before its first send:
\* while a handler is in its send phase the row of its user exists and holds
\* a timestamp no older than the handler's own.  A join request of the same
\* user that is handled while that handler sleeps in its rate-limit wait,
\* less than the window after its permit, is denied and sends nothing; two
\* handlers are in their send phase for one user only if their permits are
\* at least the window apart.
C16_WriteBeforeSend ==
  /\ [](\A t \in Tasks : InSendPhase(t) =>
          /\ res[t] = "True"
          /\ store[user[t]] # NoRow /\ store[user[t]] >= now_ts[t]
          /\ \A t2 \in Tasks \ {t} :
                (InSendPhase(t2) /\ user[t2] = user[t])
                  => Abs(now_ts[t2] - now_ts[t]) >= Window)
  /\ [][\A t, t2 \in Tasks :
          ( /\ pc[t] = "sleep"
            /\ Returned(t2) /\ user'[t2] = user[t]
            /\ now_ts'[t2] - now_ts[t] < Window )
          => (res'[t2] = "False" /\ pc'[t2] = "done" /\ sends'[t2] = 0
              /\ store' = store)]_vars

\* A handler asleep in its rate-limit wait and a later request of the same
\* user, read less than a window after the permit, skipped.
C16_Witness ==
  \E t, t2 \in Tasks :
    /\ t # t2 /\ pc[t] = "sleep" /\ user[t2] = user[t]
    /\ pc[t2] = "done" /\ res[t2] = "False" /\ sends[t2] = 0
    /\ now_ts[t2] >= now_ts[t] /\ now_ts[t2] - now_ts[t] < Window

\* C17: the stored last_sent_ts of a user never decreases: a step leaves it
\* as it is, creates it, or raises it by at least the window; a call that
\* reads a clock earlier than the stored timestamp is denied and leaves the
\* record as it is.
C17_TimestampNeverDecreases ==
  [][\A u \in Users :
       /\ \/ store'[u] = store[u]
          \/ store[u] = NoRow /\ store'[u] # NoRow
          \/ store[u] # NoRow /\ store'[u] # NoRow /\ store'[u] - store[u] >= Window
       /\ \A t \in Tasks :
            (Returned(t) /\ user'[t] = u /\ store[u] # NoRow /\ now_ts'[t] < store[u])
              => (res'[t] = "False" /\ store'[u] = store[u])]_vars

\* A record that has been updated once, and a later call whose clock read a
\* full window before the stored timestamp, denied.
C17_Witness ==
  \E t \in Tasks :
    /\ user[t] # NoUser /\ res[t] = "False"
    /\ Len(permits[user[t]]) >= 2
    /\ store[user[t]] - now_ts[t] >= Window

\* C18: send_message has been called for a user only if the table holds a
\* row for that user, and the number of send_message calls made to a user so
\* far is at most twice the number of calls of should_send_to_user that
\* returned True for it.
C18_SendsBoundedByPermits ==
  /\ \A u \in Users :
       /\ attempts[u] >= 0
       /\ attempts[u] > 0 => store[u] # NoRow
       /\ attempts[u] <= 2 * Len(permits[u])
  /\ \A t \in Tasks : sends[t] > 0 => store[user[t]] # NoRow

\* A user permitted twice and rate-limited both times, so that four sends
\* went out, next to a user permitted once with one send.
C18_Witness ==
  \E u, v \in Users :
    /\ Len(permits[u]) = 2 /\ attempts[u] = 4
    /\ Len(permits[v]) = 1 /\ attempts[v] = 1

\* C19: every invocation of handle_join_request comes to its end: a handler
\* that is awaiting a send or sleeping eventually finishes, having made at
\* most two send_message calls and slept no longer than wait seconds.
C19_HandlerTerminates ==
  /\ [](\A t \in Tasks : sends[t] <= 2 /\ slept[t] <= wait[t])
  /\ \A t \in Tasks : InSendPhase(t) ~> (pc[t] = "done")

\* A handler that has come to its end by the longest path: permit, first
\* send, rate-limit wait, retry; and one that ended at the throttle.
C19_Witness ==
  \E t1, t2 \in Tasks :
    /\ pc[t1] = "done" /\ res[t1] = "True" /\ sends[t1] = 2 /\ second[t1] # "none"
    /\ pc[t2] = "done" /\ res[t2] = "False" /\ sends[t2] = 0

\* Task t is given an update without a join request in this step.
Ignored(t) == pc[t] = "idle" /\ pc'[t] = "done" /\ user'[t] = NoUser

\* C20: an update without a join request is ignored: the handler returns
\* at once, should_send_to_user is not called, the table is left as it is
\* and no send_message is issued.
C20_NoJoinRequestIgnored ==
  /\ [](\A t \in Tasks : (pc[t] = "done" /\ user[t] = NoUser) =>
          /\ exit[t] = "return" /\ res[t] = "none" /\ ~raised[t]
          /\ sends[t] = 0 /\ first[t] = "none" /\ request[t] = "none")
  /\ [][\A t \in Tasks : Ignored(t) =>
          /\ UNCHANGED <<store, row_count, permits, attempts>>
          /\ exit'[t] = "return"]_vars

\* An update without a join request has been ignored while the table holds
\* a row and another handler is in the middle of its sends.
C20_Witness ==
  \E t, t2 \in Tasks :
    /\ pc[t] = "done" /\ user[t] = NoUser /\ exit[t] = "return"
    /\ InSendPhase(t2) /\ store[user[t2]] # NoRow
====
